---- MODULE Spec2Model ----
(***************************************************************************)
(* A model of sfsync.py: one run of the script over a source tree and a    *)
(* target tree.  The state is the filesystem, the parsed arguments, the    *)
(* local variables of main() and the futures of the execution pool.        *)
(*                                                                         *)
(* Paths are sequences of names: the first name is the root directory      *)
(* (args.source or args.target), the rest is the path below it.  The       *)
(* relative path of a root to itself (Python's ".") is the empty sequence. *)
(*                                                                         *)
(* Environment: nothing but this run touches the two trees, and a          *)
(* filesystem call fails only for the reason its arguments give (a missing *)
(* file, a file where a directory is needed).                              *)
(***************************************************************************)
EXTENDS Integers, Sequences, FiniteSets, TLC

\* ---------------------------------------------------------------- bounds
\* Modification times are 1..MaxTime, file sizes 1..MaxSize, --max-workers
\* is 1..MaxWorkers.
MaxTime == 2
MaxSize == 2
MaxWorkers == 2

\* ------------------------------------------------------- program constants
COPY_SOURCE_TO_TARGET == 0
COPY_TARGET_TO_SOURCE == 1
REMOVE_TARGET == 2
FILE == 0
FOLDER == 1
\* Python's None, where a number may stand as well.
None == -1

VARIABLES
    fs,                 \* the filesystem: absolute path -> node
    args,               \* the parsed command line
    pc,                 \* position of the main thread
    error,              \* the exception that ended the run, or "none"
    source_folders, source_files, target_folders, target_files,
    source_files_info, target_files_info,
    index,              \* merge_trees' dict, in insertion order
    what_to_do,         \* get_sync_direction's dict, in insertion order
    workers,            \* the futures, in submission order
    n_finished, finished,   \* the wait loop's last count (the progress line)
    results,
    out                 \* the lines the dry-run printed

vars == <<fs, args, pc, error, source_folders, source_files, target_folders,
          target_files, source_files_info, target_files_info, index,
          what_to_do, workers, n_finished, finished, results, out>>

\* ------------------------------------------------------------------ paths
SourceRoot == <<"S">>
TargetRoot == <<"T">>
\* The names a directory listing returns, in listing order.
Names == <<"d", "f", "z">>
RelPaths == {<<>>, <<"d">>, <<"d", "f">>, <<"z">>}

join(root, rel) == root \o rel
relpath(path, start) == SubSeq(path, Len(start) + 1, Len(path))
dirname(path) == SubSeq(path, 1, Len(path) - 1)
basename(path) == path[Len(path)]

FsPaths == {join(r, p) : r \in {SourceRoot, TargetRoot}, p \in RelPaths}

\* ------------------------------------------------------------- filesystem
Absent == [kind |-> "absent", size |-> None, mtime |-> None]
Dir == [kind |-> "dir", size |-> None, mtime |-> None]
RegularFile(size, mtime) == [kind |-> "file", size |-> size, mtime |-> mtime]

exists(f, path) == path \in DOMAIN f /\ f[path].kind # "absent"
isdir(f, path) == path \in DOMAIN f /\ f[path].kind = "dir"
isfile(f, path) == path \in DOMAIN f /\ f[path].kind = "file"

\* The entries of directory `path`, in listing order.
listdir(f, path) ==
    SelectSeq([i \in 1..Len(Names) |-> Append(path, Names[i])],
              LAMBDA q : exists(f, q))

\* The paths at or below `path`.
Subtree(f, path) ==
    {q \in DOMAIN f : Len(q) >= Len(path) /\ SubSeq(q, 1, Len(path)) = path}

\* os.remove: fails (ok = FALSE) unless `path` is a file.
os_remove(f, path) ==
    IF isfile(f, path)
    THEN [fs |-> [f EXCEPT ![path] = Absent], ok |-> TRUE]
    ELSE [fs |-> f, ok |-> FALSE]

\* os.makedirs(path, exist_ok=True): creates the missing directories from
\* the top down; fails where a file stands in the way.
RECURSIVE os_makedirs(_, _)
os_makedirs(f, path) ==
    IF isdir(f, path) THEN [fs |-> f, ok |-> TRUE]
    ELSE IF exists(f, path) \/ path \notin DOMAIN f THEN [fs |-> f, ok |-> FALSE]
    ELSE IF Len(path) = 1 THEN [fs |-> [f EXCEPT ![path] = Dir], ok |-> TRUE]
    ELSE LET head == os_makedirs(f, dirname(path))
         IN  IF head.ok
             THEN [fs |-> [head.fs EXCEPT ![path] = Dir], ok |-> TRUE]
             ELSE head

\* shutil.copy in place of copy2: the copy gets the time of the copying.
shutil_copy2_drops_mtime(f, src, dst) ==
    IF ~isfile(f, src) \/ ~isdir(f, dirname(dst)) \/ isdir(f, dst)
    THEN [fs |-> f, ok |-> FALSE]
    ELSE [fs |-> [f EXCEPT ![dst] = RegularFile(f[src].size, MaxTime)],
          ok |-> TRUE]

\* Where shutil.copy2 writes: dst itself, or into dst when dst is a directory.
copy2_dest(f, src, dst) ==
    IF isdir(f, dst) THEN Append(dst, basename(src)) ELSE dst

\* shutil.copy2(src, dst): copies the bytes, then the modification time.
shutil_copy2(f, src, dst) ==
    LET to == copy2_dest(f, src, dst)
    IN  IF ~isfile(f, src) \/ ~isdir(f, dirname(to)) \/ isdir(f, to)
        THEN [fs |-> f, ok |-> FALSE]
        ELSE IF to \notin DOMAIN f THEN [fs |-> f, ok |-> TRUE]
        ELSE [fs |-> [f EXCEPT ![to] = RegularFile(f[src].size, f[src].mtime)],
              ok |-> TRUE]

\* One step of shutil.rmtree(path, ignore_errors=True): it unlinks one
\* entry that has no entries below it; `done` when nothing is left to do.
\* Errors (a missing path, a file instead of a directory) are swallowed.
rmtree_steps(f, path) ==
    IF ~isdir(f, path) THEN {[fs |-> f, done |-> TRUE]}
    ELSE {[fs |-> [f EXCEPT ![q] = Absent], done |-> (q = path)] :
            q \in {p \in Subtree(f, path) :
                     exists(f, p) /\ \A c \in Subtree(f, p) : c = p \/ ~exists(f, c)}}

\* ---------------------------------------------------------------- scanner
\* os.walk from `top`, top-down: the files of a directory are listed when
\* the directory is visited, before the walk descends.  No exclusions are
\* given (the defaults of --exclude-folder-names and --exclude-file-ext).
RECURSIVE walk(_, _)
RECURSIVE walk_each(_, _)
walk(f, top) ==
    LET entries == listdir(f, top)
        below == walk_each(f, SelectSeq(entries, LAMBDA q : isdir(f, q)))
    IN  [folders |-> <<top>> \o below.folders,
         files |-> SelectSeq(entries, LAMBDA q : isfile(f, q)) \o below.files]
walk_each(f, dirs) ==
    IF dirs = <<>> THEN [folders |-> <<>>, files |-> <<>>]
    ELSE LET first == walk(f, Head(dirs))
             rest == walk_each(f, Tail(dirs))
         IN  [folders |-> first.folders \o rest.folders,
              files |-> first.files \o rest.files]

list_folder_tree(f, filepath) ==
    IF isdir(f, filepath) THEN walk(f, filepath)
    ELSE [folders |-> <<>>, files |-> <<>>]

get_file_info(f, filepath) ==
    [path |-> filepath, size |-> f[filepath].size, mt |-> f[filepath].mtime]

\* ----------------------------------------------------------------- merger
PathInfo(pathtype, abspath, filesize, modtime) ==
    [pathtype |-> pathtype, abspath |-> abspath,
     filesize |-> filesize, modtime |-> modtime]
\* The None that stands for a missing side of an index entry.
NoInfo == PathInfo(None, <<>>, None, None)

\* Python dict, kept as the sequence of its items in insertion order.
dict_find(d, key) ==
    LET hits == {i \in 1..Len(d) : d[i].relpath = key}
    IN  IF hits = {} THEN 0 ELSE CHOOSE i \in hits : TRUE
\* index.get(relpath, (None, None))
dict_get(d, key) ==
    IF dict_find(d, key) = 0
    THEN [relpath |-> key, source_info |-> NoInfo, target_info |-> NoInfo]
    ELSE d[dict_find(d, key)]
\* d[key] = item: a new key goes last, an old key keeps its place.
dict_set(d, item) ==
    IF dict_find(d, item.relpath) = 0 THEN Append(d, item)
    ELSE [d EXCEPT ![dict_find(d, item.relpath)] = item]

IndexItem(rel, source_info, target_info) ==
    [relpath |-> rel, source_info |-> source_info, target_info |-> target_info]

\* What the loops of merge_trees store for one scanned path.
merge_source_file(d, e) ==
    dict_set(d, IndexItem(relpath(e.path, args.source),
                          PathInfo(FILE, e.path, e.size, e.mt), NoInfo))
merge_source_folder(d, path) ==
    dict_set(d, IndexItem(relpath(path, args.source),
                          PathInfo(FOLDER, path, None, None), NoInfo))
\* The overlay as a full replace: the source side of the key is dropped.
merge_target_file_replacing(d, e) ==
    dict_set(d, IndexItem(relpath(e.path, args.target),
                          NoInfo,
                          PathInfo(FILE, e.path, e.size, e.mt)))
merge_target_file(d, e) ==
    dict_set(d, IndexItem(relpath(e.path, args.target),
                          dict_get(d, relpath(e.path, args.target)).source_info,
                          PathInfo(FILE, e.path, e.size, e.mt)))
merge_target_folder(d, path) ==
    dict_set(d, IndexItem(relpath(path, args.target),
                          dict_get(d, relpath(path, args.target)).source_info,
                          PathInfo(FOLDER, path, None, None)))

\* The four loops of merge_trees.
RECURSIVE source_files_loop(_, _)
source_files_loop(d, items) ==
    IF items = <<>> THEN d
    ELSE source_files_loop(merge_source_file(d, Head(items)), Tail(items))
RECURSIVE source_folders_loop(_, _)
source_folders_loop(d, items) ==
    IF items = <<>> THEN d
    ELSE source_folders_loop(merge_source_folder(d, Head(items)), Tail(items))
RECURSIVE target_files_loop(_, _)
target_files_loop(d, items) ==
    IF items = <<>> THEN d
    ELSE target_files_loop(merge_target_file(d, Head(items)), Tail(items))
RECURSIVE target_folders_loop(_, _)
target_folders_loop(d, items) ==
    IF items = <<>> THEN d
    ELSE target_folders_loop(merge_target_folder(d, Head(items)), Tail(items))

merge_trees(source_tree, target_tree, src_folders, tgt_folders) ==
    target_folders_loop(
        target_files_loop(
            source_folders_loop(source_files_loop(<<>>, source_tree), src_folders),
            target_tree),
        tgt_folders)

\* --------------------------------------------------------------- resolver
Decide(action) == [kind |-> "decide", action |-> action]
Continue == [kind |-> "continue", action |-> None]
Raise == [kind |-> "raise", action |-> None]

\* Orphans removed under --one-direction-sync even without --delete-orphans.
source_absent_always_removes(source_info, target_info) ==
    IF ~args.one_direction_sync THEN Decide(COPY_TARGET_TO_SOURCE)
    ELSE Decide(REMOVE_TARGET)

\* A folder missing on the target is skipped.
target_absent_skips_folders(source_info, target_info) ==
    IF source_info.pathtype = FOLDER THEN Continue
    ELSE Decide(COPY_SOURCE_TO_TARGET)

\* --prefer-source is not looked at.
both_files_ignores_prefer_source(source_info, target_info) ==
    IF source_info.modtime = target_info.modtime
       /\ source_info.filesize = target_info.filesize
    THEN Continue
    ELSE IF source_info.modtime < target_info.modtime
    THEN Decide(COPY_TARGET_TO_SOURCE)
    ELSE IF source_info.modtime > target_info.modtime
    THEN Decide(COPY_SOURCE_TO_TARGET)
    ELSE Raise

\* The last branch copies the source instead of raising.
both_files_source_wins_tie(source_info, target_info) ==
    IF source_info.modtime = target_info.modtime
       /\ source_info.filesize = target_info.filesize
    THEN Continue
    ELSE IF source_info.modtime < target_info.modtime
    THEN Decide(IF ~args.prefer_source THEN COPY_TARGET_TO_SOURCE
                ELSE COPY_SOURCE_TO_TARGET)
    ELSE Decide(COPY_SOURCE_TO_TARGET)

\* The three branches of get_sync_direction's loop body.
source_absent(source_info, target_info) ==
    IF ~args.one_direction_sync THEN Decide(COPY_TARGET_TO_SOURCE)
    ELSE IF args.delete_orphans THEN Decide(REMOVE_TARGET)
    ELSE Continue

target_absent(source_info, target_info) ==
    Decide(COPY_SOURCE_TO_TARGET)

\* The both-FILE branch with --prefer-source tested before the equality.
both_files_prefer_source_first(source_info, target_info) ==
    IF args.prefer_source /\ source_info.modtime <= target_info.modtime
    THEN Decide(COPY_SOURCE_TO_TARGET)
    ELSE IF source_info.modtime = target_info.modtime
       /\ source_info.filesize = target_info.filesize
    THEN Continue
    ELSE IF source_info.modtime < target_info.modtime
    THEN Decide(COPY_TARGET_TO_SOURCE)
    ELSE IF source_info.modtime > target_info.modtime
    THEN Decide(COPY_SOURCE_TO_TARGET)
    ELSE Raise

both_files(source_info, target_info) ==
    IF source_info.modtime = target_info.modtime
       /\ source_info.filesize = target_info.filesize
    THEN Continue
    ELSE IF source_info.modtime < target_info.modtime
    THEN Decide(IF ~args.prefer_source THEN COPY_TARGET_TO_SOURCE
                ELSE COPY_SOURCE_TO_TARGET)
    ELSE IF source_info.modtime > target_info.modtime
    THEN Decide(COPY_SOURCE_TO_TARGET)
    ELSE Raise

\* A resolver where the source wins whenever a folder is involved.
sync_direction_folder_source_wins(item) ==
    IF item.source_info = NoInfo
    THEN source_absent(item.source_info, item.target_info)
    ELSE IF item.target_info = NoInfo
    THEN target_absent(item.source_info, item.target_info)
    ELSE IF item.source_info.pathtype = FILE /\ item.target_info.pathtype = FILE
    THEN both_files(item.source_info, item.target_info)
    ELSE Decide(COPY_SOURCE_TO_TARGET)

\* The decision for one item of the index.
sync_direction(item) ==
    IF item.source_info = NoInfo
    THEN source_absent(item.source_info, item.target_info)
    ELSE IF item.target_info = NoInfo
    THEN target_absent(item.source_info, item.target_info)
    ELSE IF item.source_info.pathtype = FILE /\ item.target_info.pathtype = FILE
    THEN both_files(item.source_info, item.target_info)
    ELSE Continue

\* A placeholder that is always a FILE, whatever the present side is.
Decision_with_file_placeholder(item, action) ==
    [relpath |-> item.relpath,
     action |-> action,
     source_info |->
        IF item.source_info = NoInfo
        THEN PathInfo(FILE, join(args.source, item.relpath), None, None)
        ELSE item.source_info,
     target_info |->
        IF item.source_info # NoInfo /\ item.target_info = NoInfo
        THEN PathInfo(FILE, join(args.target, item.relpath), None, None)
        ELSE item.target_info]

\* The entry stored for a decided item: a missing side gets a placeholder.
Decision(item, action) ==
    [relpath |-> item.relpath,
     action |-> action,
     source_info |->
        IF item.source_info = NoInfo
        THEN PathInfo(item.target_info.pathtype,
                      join(args.source, item.relpath), None, None)
        ELSE item.source_info,
     target_info |->
        IF item.source_info # NoInfo /\ item.target_info = NoInfo
        THEN PathInfo(item.source_info.pathtype,
                      join(args.target, item.relpath), None, None)
        ELSE item.target_info]

\* get_sync_direction: the decisions in index order, or the exception.
RECURSIVE sync_loop(_, _)
sync_loop(acc, items) ==
    IF items = <<>> THEN [raised |-> FALSE, what_to_do |-> acc]
    ELSE LET item == Head(items)
             dec == sync_direction(item)
         IN  IF dec.kind = "raise" THEN [raised |-> TRUE, what_to_do |-> <<>>]
             ELSE IF dec.kind = "continue" THEN sync_loop(acc, Tail(items))
             ELSE sync_loop(Append(acc, Decision(item, dec.action)), Tail(items))

\* A pass that skips an entry it cannot decide and keeps the other decisions.
get_sync_direction_skipping(idx) ==
    sync_loop(<<>>, SelectSeq(idx, LAMBDA item : sync_direction(item).kind # "raise"))

get_sync_direction(idx) == sync_loop(<<>>, idx)

\* The index and the decisions a run would compute on filesystem f.
IndexOf(f) ==
    LET s == list_folder_tree(f, args.source)
        t == list_folder_tree(f, args.target)
    IN  merge_trees([i \in 1..Len(s.files) |-> get_file_info(f, s.files[i])],
                    [i \in 1..Len(t.files) |-> get_file_info(f, t.files[i])],
                    s.folders, t.folders)

\* ---------------------------------------------------------------- summary
\* print_summary replaces a missing file size by 0.0 in the entries it
\* prints; the table itself is console output.
summary_item(d) ==
    [d EXCEPT !.source_info.filesize = IF @ = None THEN 0 ELSE @,
              !.target_info.filesize = IF @ = None THEN 0 ELSE @]

print_summary(w) == [i \in 1..Len(w) |-> summary_item(w[i])]

\* --------------------------------------------------------------- executor
Line(op, src, dst) == [op |-> op, src |-> src, dst |-> dst]

\* remove_file without the dry-run test.
remove_file_despite_dry_run(f, o, filepath) ==
    [fs |-> os_remove(f, filepath).fs, out |-> o,
     ok |-> os_remove(f, filepath).ok, done |-> TRUE]

\* remove_file, make_dir: one filesystem call, or one printed line.
remove_file(f, o, filepath) ==
    IF ~args.dry_run
    THEN [fs |-> os_remove(f, filepath).fs, out |-> o,
          ok |-> os_remove(f, filepath).ok, done |-> TRUE]
    ELSE [fs |-> f, out |-> Append(o, Line("remove", filepath, <<>>)),
          ok |-> TRUE, done |-> TRUE]

make_dir(f, o, folderpath) ==
    IF ~args.dry_run
    THEN [fs |-> os_makedirs(f, folderpath).fs, out |-> o,
          ok |-> os_makedirs(f, folderpath).ok, done |-> TRUE]
    ELSE [fs |-> f, out |-> Append(o, Line("makedir", folderpath, <<>>)),
          ok |-> TRUE, done |-> TRUE]

\* remove_dir: the possible next steps of the recursive removal.
remove_dir(f, o, folderpath) ==
    IF ~args.dry_run
    THEN {[fs |-> r.fs, out |-> o, ok |-> TRUE, done |-> r.done] :
            r \in rmtree_steps(f, folderpath)}
    ELSE {[fs |-> f, out |-> Append(o, Line("remove", folderpath, <<>>)),
           ok |-> TRUE, done |-> TRUE]}

\* copy_file: step 0 makes the destination's directory, step 1 copies.
copy_file(f, o, src, dst, step) ==
    IF args.dry_run
    THEN [fs |-> f, out |-> Append(o, Line("copy", src, dst)),
          ok |-> TRUE, done |-> TRUE]
    ELSE IF step = 0
    THEN IF ~isdir(f, dirname(dst))
         THEN [fs |-> os_makedirs(f, dirname(dst)).fs, out |-> o,
               ok |-> os_makedirs(f, dirname(dst)).ok, done |-> FALSE]
         ELSE [fs |-> f, out |-> o, ok |-> TRUE, done |-> FALSE]
    ELSE [fs |-> shutil_copy2(f, src, dst).fs, out |-> o,
          ok |-> shutil_copy2(f, src, dst).ok, done |-> TRUE]

Unsupported(f, o) == [fs |-> f, out |-> o, ok |-> FALSE, done |-> TRUE]

\* The possible next steps of a running task.
file_action(d, f, o, step) ==
    IF d.action = REMOVE_TARGET
    THEN {remove_file(f, o, d.target_info.abspath)}
    ELSE IF d.action = COPY_SOURCE_TO_TARGET
    THEN {copy_file(f, o, d.source_info.abspath, d.target_info.abspath, step)}
    ELSE IF d.action = COPY_TARGET_TO_SOURCE
    THEN {copy_file(f, o, d.target_info.abspath, d.source_info.abspath, step)}
    ELSE {Unsupported(f, o)}

folder_action(d, f, o, step) ==
    IF d.action = REMOVE_TARGET
    THEN remove_dir(f, o, d.target_info.abspath)
    ELSE IF d.action = COPY_SOURCE_TO_TARGET
    THEN {make_dir(f, o, d.target_info.abspath)}
    ELSE IF d.action = COPY_TARGET_TO_SOURCE
    THEN {make_dir(f, o, d.source_info.abspath)}
    ELSE {Unsupported(f, o)}

\* A future: Pending until a worker takes it, Running while execute_action
\* is in progress, then Succeeded (it returned True) or Failed (it raised).
Future(state, step) == [state |-> state, step |-> step]
Terminal(w) == w.state \in {"Succeeded", "Failed"}
after_step(w, r) ==
    IF ~r.ok THEN Future("Failed", w.step)
    ELSE IF r.done THEN Future("Succeeded", w.step)
    ELSE Future("Running", w.step + 1)

\* A pool sized by --max-workers even in a dry run.
num_workders_from_max_workers == args.max_workers
num_workders == IF args.dry_run THEN 1 ELSE args.max_workers
Running == {i \in 1..Len(workers) : workers[i].state = "Running"}
Pending == {i \in 1..Len(workers) : workers[i].state = "Pending"}
n_done == Cardinality({i \in 1..Len(workers) : Terminal(workers[i])})

\* ------------------------------------------------------------------ input
Nodes == {Absent, Dir} \cup {RegularFile(s, m) : s \in 1..MaxSize, m \in 1..MaxTime}

\* A tree under `root`: an entry exists only inside a directory.  A root
\* that is missing altogether is what the preflight check is for.
Trees(root) ==
    {t \in [{join(root, p) : p \in RelPaths} -> Nodes] :
        /\ t[root].kind # "file"
        /\ \A q \in DOMAIN t : Len(q) > 1 /\ exists(t, q) => isdir(t, dirname(q))}

\* The trees of the whole-run specification: z is a file of any size and
\* time (or missing), d is a file, a directory or missing, d/f a file or
\* missing, and the files at d and d/f have size 1 and time 1.
RunTrees(root) ==
    {t \in Trees(root) :
        /\ ~isdir(t, join(root, <<"z">>))
        /\ ~isdir(t, join(root, <<"d", "f">>))
        /\ \A p \in {<<"d">>, <<"d", "f">>} :
              isfile(t, join(root, p)) => t[join(root, p)] = RegularFile(1, 1)}

Args ==
    [source : {SourceRoot}, target : {TargetRoot},
     one_direction_sync : BOOLEAN, delete_orphans : BOOLEAN,
     prefer_source : BOOLEAN, summary : BOOLEAN, dry_run : BOOLEAN,
     max_workers : 1..MaxWorkers]

InitLocals ==
    /\ pc = "preflight"
    /\ error = "none"
    /\ source_folders = <<>> /\ source_files = <<>>
    /\ target_folders = <<>> /\ target_files = <<>>
    /\ source_files_info = <<>> /\ target_files_info = <<>>
    /\ index = <<>>
    /\ what_to_do = <<>>
    /\ workers = <<>>
    /\ n_finished = None /\ finished = FALSE
    /\ results = <<>>
    /\ out = <<>>

Init ==
    /\ fs \in {s @@ t : s \in RunTrees(SourceRoot), t \in RunTrees(TargetRoot)}
    /\ args \in Args
    /\ InitLocals

\* The resolver's specification: every pair of trees, every combination of
\* the three flags get_sync_direction reads.
ResolveInit ==
    /\ fs \in {s @@ t : s \in Trees(SourceRoot), t \in Trees(TargetRoot)}
    /\ args \in {a \in Args : ~a.summary /\ ~a.dry_run /\ a.max_workers = 1}
    /\ InitLocals

\* The runs of the fair specification: the files all have size 1 and time 1
\* (what a task does to a file does not depend on its size and time), and
\* --prefer-source, which the executor never reads, is off.
FairInit ==
    /\ fs \in {s @@ t : s \in RunTrees(SourceRoot), t \in RunTrees(TargetRoot)}
    /\ \A q \in FsPaths : isfile(fs, q) => fs[q] = RegularFile(1, 1)
    /\ args \in {a \in Args : ~a.prefer_source}
    /\ InitLocals

\* ------------------------------------------------------- the main thread
main_locals == <<source_folders, source_files, target_folders, target_files,
                 source_files_info, target_files_info, index, what_to_do>>
poll_locals == <<n_finished, finished, results>>

\* The preflight without the test of --delete-orphans.
Preflight_without_flag_test ==
    /\ pc = "preflight"
    /\ IF ~isdir(fs, args.source) \/ ~isdir(fs, args.target)
       THEN pc' = "crashed" /\ error' = "ConfigurationError"
       ELSE pc' = "scan" /\ error' = error
    /\ UNCHANGED <<fs, args, main_locals, workers, poll_locals, out>>

\* __main__: the checks before main() is called.
Preflight ==
    /\ pc = "preflight"
    /\ IF ~isdir(fs, args.source) \/ ~isdir(fs, args.target)
          \/ (~args.one_direction_sync /\ args.delete_orphans)
       THEN pc' = "crashed" /\ error' = "ConfigurationError"
       ELSE pc' = "scan" /\ error' = error
    /\ UNCHANGED <<fs, args, main_locals, workers, poll_locals, out>>

Scan ==
    /\ pc = "scan"
    /\ source_folders' = list_folder_tree(fs, args.source).folders
    /\ source_files' = list_folder_tree(fs, args.source).files
    /\ target_folders' = list_folder_tree(fs, args.target).folders
    /\ target_files' = list_folder_tree(fs, args.target).files
    /\ pc' = "stat"
    /\ UNCHANGED <<fs, args, error, source_files_info, target_files_info,
                   index, what_to_do, workers, poll_locals, out>>

Stat ==
    /\ pc = "stat"
    /\ source_files_info' =
          [i \in 1..Len(source_files) |-> get_file_info(fs, source_files[i])]
    /\ target_files_info' =
          [i \in 1..Len(target_files) |-> get_file_info(fs, target_files[i])]
    /\ pc' = "merge"
    /\ UNCHANGED <<fs, args, error, source_folders, source_files, target_folders,
                   target_files, index, what_to_do, workers, poll_locals, out>>

Merge ==
    /\ pc = "merge"
    /\ index' = merge_trees(source_files_info, target_files_info,
                            source_folders, target_folders)
    /\ pc' = "resolve"
    /\ UNCHANGED <<fs, args, error, source_folders, source_files, target_folders,
                   target_files, source_files_info, target_files_info,
                   what_to_do, workers, poll_locals, out>>

\* Where main goes once the decisions are ready to be submitted.
to_submit(w) == IF Len(w) = 0 THEN "poll" ELSE "submit"

Resolve ==
    /\ pc = "resolve"
    /\ LET r == get_sync_direction(index)
       IN  IF r.raised
           THEN /\ pc' = "crashed" /\ error' = "AmbiguousConflict"
                /\ what_to_do' = what_to_do
           ELSE /\ what_to_do' = r.what_to_do
                /\ pc' = IF args.summary THEN "summary" ELSE to_submit(r.what_to_do)
                /\ error' = error
    /\ UNCHANGED <<fs, args, source_folders, source_files, target_folders,
                   target_files, source_files_info, target_files_info, index,
                   workers, poll_locals, out>>

Summary ==
    /\ pc = "summary"
    /\ what_to_do' = print_summary(what_to_do)
    /\ pc' = to_submit(what_to_do)
    /\ UNCHANGED <<fs, args, error, source_folders, source_files, target_folders,
                   target_files, source_files_info, target_files_info, index,
                   workers, poll_locals, out>>

\* One round of the loop that submits a task per decision.
Submit ==
    /\ pc = "submit"
    /\ workers' = Append(workers, Future("Pending", 0))
    /\ pc' = IF Len(workers) + 1 = Len(what_to_do) THEN "poll" ELSE "submit"
    /\ UNCHANGED <<fs, args, error, main_locals, poll_locals, out>>

\* A progress loop that stops one task short of the total.
Poll_stops_one_short ==
    /\ pc = "poll"
    /\ n_finished' = n_done
    /\ finished' = (n_done >= Len(workers) - 1)
    /\ pc' = IF n_done >= Len(workers) - 1 THEN "results" ELSE "poll"
    /\ UNCHANGED <<fs, args, error, main_locals, workers, results, out>>

\* One round of the progress loop.
Poll ==
    /\ pc = "poll"
    /\ n_finished' = n_done
    /\ finished' = (n_done = Len(workers))
    /\ pc' = IF n_done = Len(workers) THEN "results" ELSE "poll"
    /\ UNCHANGED <<fs, args, error, main_locals, workers, results, out>>

\* The results read as if a failed task had returned True.
Results_without_raise ==
    /\ pc = "results"
    /\ results' = [i \in 1..Len(workers) |-> TRUE]
    /\ pc' = "report" /\ error' = error
    /\ UNCHANGED <<fs, args, main_locals, workers, n_finished, finished, out>>

\* results = [fut.result() ...]: the exception of a failed task is raised
\* again here and ends the run.
Results ==
    /\ pc = "results"
    /\ IF \E i \in 1..Len(workers) : workers[i].state = "Failed"
       THEN pc' = "crashed" /\ error' = "TaskFailed" /\ results' = results
       ELSE /\ results' = [i \in 1..Len(workers) |-> TRUE]
            /\ pc' = "report" /\ error' = error
    /\ UNCHANGED <<fs, args, main_locals, workers, n_finished, finished, out>>

\* if all(results): print "Done ...".
Report ==
    /\ pc = "report"
    /\ pc' = IF \A i \in 1..Len(results) : results[i] THEN "done" ELSE "exit"
    /\ UNCHANGED <<fs, args, error, main_locals, workers, poll_locals, out>>

\* ------------------------------------------------------------ the workers
\* A pool that takes no new task once a task has failed.
Start_unless_failed(i) ==
    /\ i \in Pending
    /\ \A j \in Pending : i <= j
    /\ Cardinality(Running) < num_workders
    /\ \A j \in 1..Len(workers) : workers[j].state # "Failed"
    /\ workers' = [workers EXCEPT ![i] = Future("Running", 0)]
    /\ UNCHANGED <<fs, args, pc, error, main_locals, poll_locals, out>>

\* A free worker takes the oldest pending task.
Start(i) ==
    /\ i \in Pending
    /\ \A j \in Pending : i <= j
    /\ Cardinality(Running) < num_workders
    /\ workers' = [workers EXCEPT ![i] = Future("Running", 0)]
    /\ UNCHANGED <<fs, args, pc, error, main_locals, poll_locals, out>>

execute_file_action(i) ==
    /\ i \in Running
    /\ what_to_do[i].source_info.pathtype = FILE
    /\ \E r \in file_action(what_to_do[i], fs, out, workers[i].step) :
          /\ fs' = r.fs
          /\ out' = r.out
          /\ workers' = [workers EXCEPT ![i] = after_step(@, r)]
    /\ UNCHANGED <<args, pc, error, main_locals, poll_locals>>

execute_folder_action(i) ==
    /\ i \in Running
    /\ what_to_do[i].source_info.pathtype # FILE
    /\ \E r \in folder_action(what_to_do[i], fs, out, workers[i].step) :
          /\ fs' = r.fs
          /\ out' = r.out
          /\ workers' = [workers EXCEPT ![i] = after_step(@, r)]
    /\ UNCHANGED <<args, pc, error, main_locals, poll_locals>>

MaxTasks == Cardinality(RelPaths)

Next ==
    \/ Preflight
    \/ Scan
    \/ Stat
    \/ Merge
    \/ Resolve
    \/ Summary
    \/ Submit
    \/ Poll
    \/ Results
    \/ Report
    \/ \E i \in 1..MaxTasks : Start(i)
    \/ \E i \in 1..MaxTasks : execute_file_action(i)
    \/ \E i \in 1..MaxTasks : execute_folder_action(i)

Spec == Init /\ [][Next]_vars

\* The run up to the return of get_sync_direction.
\* The steps of the main thread once the decisions are known, and the steps
\* of the pool's workers.
ExecutionStep == Summary \/ Submit \/ Poll \/ Results \/ Report

WorkerStep ==
    \E i \in 1..MaxTasks :
        Start(i) \/ execute_file_action(i) \/ execute_folder_action(i)

\* The run with an execution phase that keeps going: the main thread and the
\* workers each take a step that stays possible.
FairSpec ==
    FairInit /\ [][Next]_vars /\ WF_vars(ExecutionStep) /\ WF_vars(WorkerStep)

ResolveNext == Preflight \/ Scan \/ Stat \/ Merge \/ Resolve
ResolveSpec == ResolveInit /\ [][ResolveNext]_vars

\* ================================================================== claims
\* get_sync_direction has returned its decisions.
Resolved ==
    \/ pc \in {"summary", "submit", "poll", "results", "report", "done", "exit"}
    \/ pc = "crashed" /\ error = "TaskFailed"
\* merge_trees has returned the index.
Merged == pc \notin {"preflight", "scan", "stat", "merge"} /\ error # "ConfigurationError"
\* Every task of the run has ended.
Executed ==
    \/ pc \in {"results", "report", "done", "exit"}
    \/ pc = "crashed" /\ error = "TaskFailed"

Items == {index[i] : i \in 1..Len(index)}
Decisions == {what_to_do[i] : i \in 1..Len(what_to_do)}
\* The actions decided for a relative path (one at most).
ActionsFor(rel) == {d.action : d \in {e \in Decisions : e.relpath = rel}}

SourceOnly(item) == item.source_info # NoInfo /\ item.target_info = NoInfo
TargetOnly(item) == item.source_info = NoInfo
BothFiles(item) ==
    /\ item.source_info.pathtype = FILE
    /\ item.target_info.pathtype = FILE

\* The node a PathInfo of the index describes.
NodeOf(info) ==
    IF info = NoInfo THEN Absent
    ELSE IF info.pathtype = FILE THEN RegularFile(info.filesize, info.modtime)
    ELSE Dir

\* C1: with oneDirectionSync no decision is CopyTargetToSource, and the run
\* leaves every path of the source tree as the scan found it.
C1_OneDirectionKeepsSource ==
    args.one_direction_sync =>
        /\ \A d \in Decisions : d.action # COPY_TARGET_TO_SOURCE
        /\ Merged =>
             \A item \in Items :
                fs[join(args.source, item.relpath)] = NodeOf(item.source_info)

\* C3: once resolve has returned, a relpath found only on the target (file
\* or folder, any preferSource) has the decision CopyTargetToSource without
\* oneDirectionSync, RemoveTarget with oneDirectionSync and deleteOrphans,
\* and no decision with oneDirectionSync alone.
C3_TargetOnly ==
    Resolved =>
        \A item \in Items :
            TargetOnly(item) =>
                ActionsFor(item.relpath) =
                    IF ~args.one_direction_sync THEN {COPY_TARGET_TO_SOURCE}
                    ELSE IF args.delete_orphans THEN {REMOVE_TARGET}
                    ELSE {}

C3_Witness ==
    /\ Resolved
    /\ args.one_direction_sync /\ args.delete_orphans /\ args.prefer_source
    /\ \E item \in Items : TargetOnly(item) /\ item.target_info.pathtype = FILE
    /\ \E item \in Items : TargetOnly(item) /\ item.target_info.pathtype = FOLDER

\* C4: once resolve has returned, a relpath found only on the source (file
\* or folder) has the decision CopySourceToTarget, whatever the flags.
C4_SourceOnly ==
    Resolved =>
        \A item \in Items :
            SourceOnly(item) => ActionsFor(item.relpath) = {COPY_SOURCE_TO_TARGET}

C4_Witness ==
    /\ Resolved
    /\ args.one_direction_sync /\ ~args.delete_orphans /\ ~args.prefer_source
    /\ \E item \in Items : SourceOnly(item) /\ item.source_info.pathtype = FILE
    /\ \E item \in Items : SourceOnly(item) /\ item.source_info.pathtype = FOLDER

Ambiguous(item) ==
    /\ BothFiles(item)
    /\ item.source_info.modtime = item.target_info.modtime
    /\ item.source_info.filesize # item.target_info.filesize

\* C6: when the index holds two files at one relpath with the same time and
\* different sizes, the step after the merge ends the run with
\* AmbiguousConflict and no decision is recorded, whatever the flags.
C6_AmbiguousConflict ==
    (Merged /\ \E item \in Items : Ambiguous(item)) =>
        /\ pc \in {"resolve", "crashed"}
        /\ pc = "crashed" => error = "AmbiguousConflict"
        /\ what_to_do = <<>>

C6_Witness ==
    /\ pc = "crashed" /\ error = "AmbiguousConflict"
    /\ args.prefer_source
    /\ \E item \in Items : Ambiguous(item)
    /\ \E item \in Items : SourceOnly(item)

\* The decisions a resolve pass on the filesystem as it is now would return.
ResolveAgain == get_sync_direction(IndexOf(fs))
\* A decision set as the pairs relpath -> action.
DecisionSet(w) == {<<w[i].relpath, w[i].action>> : i \in 1..Len(w)}

Tasks == 1..Len(workers)
AllSubmitted == Len(workers) = Len(what_to_do)
AllSucceeded == AllSubmitted /\ \A i \in Tasks : workers[i].state = "Succeeded"
SomeFailed == \E i \in Tasks : workers[i].state = "Failed"

\* C2: after a real run has applied its decisions, a second resolve pass on
\* the two trees returns without error and decides nothing.
C2_Convergence ==
    (Executed /\ ~args.dry_run) =>
        ResolveAgain = [raised |-> FALSE, what_to_do |-> <<>>]

\* C7: a dry run leaves both trees as they were scanned, no task fails, and
\* when the run is over every task has succeeded and a new resolve pass
\* decides the same action for the same relpaths.
C7_DryRunChangesNothing ==
    args.dry_run =>
        /\ Merged => IndexOf(fs) = index
        /\ ~SomeFailed
        /\ Executed =>
              /\ AllSucceeded
              /\ LET again == ResolveAgain
                 IN  /\ ~again.raised
                     /\ DecisionSet(again.what_to_do) = DecisionSet(what_to_do)

C7_Witness ==
    /\ args.dry_run /\ pc = "done"
    /\ \E d \in Decisions : d.action = REMOVE_TARGET /\ d.source_info.pathtype = FILE
    /\ \E d \in Decisions : d.action = REMOVE_TARGET /\ d.source_info.pathtype = FOLDER
    /\ \E d \in Decisions : d.action = COPY_SOURCE_TO_TARGET /\ d.source_info.pathtype = FILE

\* C8: after a real run with oneDirectionSync and deleteOrphans in which
\* every task succeeded, the target holds at every relpath what the source
\* held there when it was scanned.
C8_Mirror ==
    (args.one_direction_sync /\ args.delete_orphans /\ ~args.dry_run /\ pc = "done") =>
        \A p \in RelPaths :
            fs[join(args.target, p)] = NodeOf(dict_get(index, p).source_info)

\* C9, every state: a task per decision and no more, at most the pool's
\* size of them running, all of them ended when main reads the results, and
\* while a task has not ended (failed siblings or not) a worker can step.
C9_State ==
    /\ Len(workers) <= Len(what_to_do)
    /\ pc \in {"poll", "results", "report", "done", "exit"} => AllSubmitted
    /\ Cardinality(Running) <= num_workders
    /\ Executed => AllSubmitted /\ \A i \in Tasks : Terminal(workers[i])
    /\ (\E i \in Tasks : ~Terminal(workers[i])) => ENABLED WorkerStep

\* C9, every step: a task only moves Pending -> Running -> Succeeded or
\* Failed, a new task starts Pending, and no task is dropped.
C9_Step ==
    /\ Len(workers') >= Len(workers)
    /\ \A i \in 1..Len(workers') :
          IF i > Len(workers) THEN workers'[i].state = "Pending"
          ELSE \/ workers'[i].state = workers[i].state
               \/ <<workers[i].state, workers'[i].state>> \in
                     {<<"Pending", "Running">>, <<"Running", "Succeeded">>,
                      <<"Running", "Failed">>}

\* C9: each decision is one task, a task runs once, a failed task stops no
\* other task, and the results are read when every task has ended.
C9_FailureIsLocal == []C9_State /\ [][C9_Step]_vars

\* With one worker: a task has failed and a task submitted after it has run.
C9_Witness ==
    /\ num_workders = 1
    /\ \E i \in Tasks, j \in Tasks :
          /\ i < j
          /\ workers[i].state = "Failed"
          /\ workers[j].state = "Succeeded"

\* C10: once the results have been read, the run goes on to report "Done"
\* exactly when every task succeeded; with a failed task it ends with that
\* task's exception instead.
C10_OverallSuccess ==
    /\ pc # "exit"
    /\ (Executed /\ pc # "results") =>
          /\ pc \in {"report", "done"} <=> AllSucceeded
          /\ SomeFailed <=> (pc = "crashed" /\ error = "TaskFailed")
    /\ pc = "crashed" /\ error = "TaskFailed" => Executed

C10_Witness ==
    /\ pc = "crashed" /\ error = "TaskFailed"
    /\ \E i \in Tasks : workers[i].state = "Succeeded"

\* A relpath that is a file on one side and a folder on the other.
KindClash(item) ==
    /\ item.source_info # NoInfo /\ item.target_info # NoInfo
    /\ item.source_info.pathtype # item.target_info.pathtype

\* C2, amended: when no relpath is a file on one side and a folder on the
\* other, a second resolve pass after a real run returns without error and
\* decides nothing.
C2_ConvergenceWithoutKindClash ==
    (Executed /\ ~args.dry_run /\ \A item \in Items : ~KindClash(item)) =>
        ResolveAgain = [raised |-> FALSE, what_to_do |-> <<>>]

C2_Witness ==
    /\ pc = "done" /\ ~args.dry_run
    /\ \A item \in Items : ~KindClash(item)
    /\ \E d \in Decisions : d.action = COPY_TARGET_TO_SOURCE /\ d.source_info.modtime # None
    /\ \E d \in Decisions : d.action = COPY_SOURCE_TO_TARGET /\ d.source_info.pathtype = FILE
    /\ \E d \in Decisions : d.source_info.pathtype = FOLDER

\* What the preflight refuses: a missing root, or --delete-orphans without
\* --one-direction-sync.
BadConfiguration ==
    \/ ~isdir(fs, args.source)
    \/ ~isdir(fs, args.target)
    \/ ~args.one_direction_sync /\ args.delete_orphans

\* Nothing of main() has run: no scan, stat, merge, resolve, task or output.
NothingRun ==
    /\ source_folders = <<>> /\ source_files = <<>>
    /\ target_folders = <<>> /\ target_files = <<>>
    /\ source_files_info = <<>> /\ target_files_info = <<>>
    /\ index = <<>> /\ what_to_do = <<>>
    /\ workers = <<>> /\ results = <<>> /\ out = <<>>

\* C11: with a missing source or target directory, or deleteOrphans without
\* oneDirectionSync, the run is at the preflight or has ended there with a
\* configuration error, nothing of main() has run, and no step changes a tree.
C11_Preflight ==
    /\ [](BadConfiguration =>
            /\ pc \in {"preflight", "crashed"}
            /\ pc = "crashed" => error = "ConfigurationError"
            /\ NothingRun)
    /\ [][BadConfiguration => fs' = fs]_vars

C11_Witness ==
    /\ pc = "crashed" /\ error = "ConfigurationError"
    /\ isdir(fs, args.source) /\ isdir(fs, args.target)
    /\ \E p \in RelPaths : p # <<>> /\ ~exists(fs, join(args.source, p))
                                  /\ exists(fs, join(args.target, p))

\* The two trees hold the same node at every relative path.
TreesAgree ==
    \A p \in RelPaths : fs[join(args.source, p)] = fs[join(args.target, p)]

\* The spec's example with its sizes and times scaled into the bounds:
\* source {f1}, target {f1 with the same size and time, f2 smaller and older};
\* f1 is z and f2 is d.
C12_Example ==
    /\ fs[join(args.source, <<"z">>)] = RegularFile(MaxSize, MaxTime)
    /\ fs[join(args.target, <<"z">>)] = RegularFile(MaxSize, MaxTime)
    /\ fs[join(args.source, <<"d">>)] = Absent
    /\ fs[join(args.target, <<"d">>)] = RegularFile(1, 1)
    /\ ~args.one_direction_sync

\* C12: two files with the same time and the same size get no decision under
\* any flags; trees that agree everywhere resolve to the empty decision set;
\* in the example the decision set is exactly {f2 -> CopyTargetToSource}.
C12_InSync ==
    /\ Resolved =>
         \A item \in Items :
            (/\ BothFiles(item)
             /\ item.source_info.modtime = item.target_info.modtime
             /\ item.source_info.filesize = item.target_info.filesize)
            => ActionsFor(item.relpath) = {}
    /\ (Merged /\ pc # "resolve" /\ TreesAgree) =>
         Resolved /\ what_to_do = <<>>
    /\ (Merged /\ pc # "resolve" /\ C12_Example) =>
         /\ Resolved
         /\ DecisionSet(what_to_do) = {<< <<"d">>, COPY_TARGET_TO_SOURCE >>}

C12_Witness ==
    /\ Resolved /\ C12_Example /\ args.prefer_source
    /\ Len(what_to_do) = 1

\* The filesystem as the index describes it: the trees at the scan.
FsAsIndexed ==
    [q \in FsPaths |->
        IF SubSeq(q, 1, 1) = args.source
        THEN NodeOf(dict_get(index, relpath(q, args.source)).source_info)
        ELSE NodeOf(dict_get(index, relpath(q, args.target)).target_info)]

\* One task run alone from filesystem f until it ends.
RECURSIVE run_alone(_, _, _)
run_alone(d, f, step) ==
    LET r == CHOOSE x \in (IF d.source_info.pathtype = FILE
                           THEN file_action(d, f, <<>>, step)
                           ELSE folder_action(d, f, <<>>, step)) : TRUE
    IN  IF ~r.ok THEN [fs |-> r.fs, ok |-> FALSE]
        ELSE IF r.done THEN [fs |-> r.fs, ok |-> TRUE]
        ELSE run_alone(d, r.fs, step + 1)

\* The outcomes of the tasks of w run one by one in the order of w.
RECURSIVE one_by_one(_, _)
one_by_one(w, f) ==
    IF w = <<>> THEN <<>>
    ELSE LET r == run_alone(Head(w), f, 0)
         IN  <<r.ok>> \o one_by_one(Tail(w), r.fs)

\* C13: after a real run every task has the outcome it has when the tasks
\* run one by one in decision order, whatever the pool size and the
\* interleaving of the workers.
C13_OutcomesIgnoreScheduling ==
    (Executed /\ ~args.dry_run) =>
        LET alone == one_by_one(what_to_do, FsAsIndexed)
        IN  \A i \in Tasks : (workers[i].state = "Succeeded") = alone[i]

\* C14: when some entry of the index is an ambiguous conflict the run stops
\* at the resolve step with AmbiguousConflict: no decision map exists, not
\* even for the entries before the conflict, no task was submitted, nothing
\* was printed by a task, and both trees are as the scan found them.
C14_ConflictAbortsPass ==
    (Merged /\ \E item \in Items : Ambiguous(item)) =>
        /\ pc \in {"resolve", "crashed"}
        /\ pc = "crashed" => error = "AmbiguousConflict"
        /\ what_to_do = <<>>
        /\ workers = <<>> /\ results = <<>> /\ out = <<>>
        /\ n_finished = None
        /\ fs = FsAsIndexed

C14_Witness ==
    /\ pc = "crashed" /\ error = "AmbiguousConflict"
    /\ ~args.dry_run
    /\ \E i, j \in 1..Len(index) :
          /\ i < j
          /\ sync_direction(index[i]).kind = "decide"
          /\ Ambiguous(index[j])

SeqSet(s) == {s[i] : i \in 1..Len(s)}

\* The entry merge_trees owes a relative path on one side, from what the
\* scan of that side listed: a folder, a file with its size and time, or none.
Scanned(root, folders, files_info, rel) ==
    IF join(root, rel) \in SeqSet(folders)
    THEN PathInfo(FOLDER, join(root, rel), None, None)
    ELSE IF \E e \in SeqSet(files_info) : e.path = join(root, rel)
    THEN LET e == CHOOSE x \in SeqSet(files_info) : x.path = join(root, rel)
         IN  PathInfo(FILE, join(root, rel), e.size, e.mt)
    ELSE NoInfo

\* C15: in the merged index every key has at least one side; a key has a
\* source entry exactly when the scan listed it under the source root and a
\* target entry exactly when the scan listed it under the target root; the
\* source entry is the one the source phase stored (the overlay neither
\* removes nor replaces it); a present entry's path is its root joined with
\* the key; every scanned path has its key, once.
C15_TreeIndex ==
    Merged =>
        /\ \A item \in Items :
              /\ item.source_info # NoInfo \/ item.target_info # NoInfo
              /\ item.source_info =
                    Scanned(args.source, source_folders, source_files_info,
                            item.relpath)
              /\ item.target_info =
                    Scanned(args.target, target_folders, target_files_info,
                            item.relpath)
              /\ item.source_info # NoInfo =>
                    item.source_info.abspath = join(args.source, item.relpath)
              /\ item.target_info # NoInfo =>
                    item.target_info.abspath = join(args.target, item.relpath)
        /\ \A i, j \in 1..Len(index) :
              index[i].relpath = index[j].relpath => i = j
        /\ \A q \in SeqSet(source_folders) \cup SeqSet(source_files) :
              \E item \in Items : item.relpath = relpath(q, args.source)
        /\ \A q \in SeqSet(target_folders) \cup SeqSet(target_files) :
              \E item \in Items : item.relpath = relpath(q, args.target)

C15_Witness ==
    /\ Merged
    /\ \E item \in Items : BothFiles(item)
    /\ \E item \in Items :
          /\ item.relpath # <<>>
          /\ item.source_info.pathtype = FOLDER
          /\ item.target_info.pathtype = FOLDER
    /\ \E item \in Items : TargetOnly(item)

Supported == {COPY_SOURCE_TO_TARGET, COPY_TARGET_TO_SOURCE, REMOVE_TARGET}
\* The decisions are as get_sync_direction returned them: print_summary has
\* not run on them.
AsReturned == ~args.summary \/ pc = "summary"

\* C16: every decision has one of the three actions and two entries of the
\* same kind, none absent; the placeholder for a missing side has the kind of
\* the present side and, as get_sync_direction returns it, no size and no
\* time; so a task never takes the unsupported-action branch.
C16_WellFormed ==
    /\ \A d \in Decisions :
          /\ d.action \in Supported
          /\ d.source_info # NoInfo /\ d.target_info # NoInfo
          /\ d.source_info.pathtype \in {FILE, FOLDER}
          /\ d.source_info.pathtype = d.target_info.pathtype
          /\ LET item == dict_get(index, d.relpath)
             IN  /\ TargetOnly(item) =>
                       /\ d.source_info.pathtype = item.target_info.pathtype
                       /\ d.source_info.modtime = None
                       /\ AsReturned => d.source_info.filesize = None
                 /\ SourceOnly(item) =>
                       /\ d.target_info.pathtype = item.source_info.pathtype
                       /\ d.target_info.modtime = None
                       /\ AsReturned => d.target_info.filesize = None
    /\ \A i \in Tasks :
          /\ i <= Len(what_to_do)
          /\ what_to_do[i].action \in Supported
          /\ (what_to_do[i].source_info.pathtype = FILE)
                = (what_to_do[i].target_info.pathtype = FILE)

C16_Witness ==
    /\ ~args.summary /\ ~args.dry_run
    /\ \E i \in Running :
          /\ TargetOnly(dict_get(index, what_to_do[i].relpath))
          /\ what_to_do[i].source_info.pathtype = FOLDER
    /\ \E d \in Decisions : SourceOnly(dict_get(index, d.relpath))

\* C17: from the return of get_sync_direction to the end of the run the
\* decision map is the one get_sync_direction returned for the index: no
\* step, the summary included, changes an action or a field of an entry, and
\* a placeholder still has no size and no time when its task runs.
C17_DecisionsImmutable ==
    Resolved =>
        /\ what_to_do = get_sync_direction(index).what_to_do
        /\ \A i \in Running :
              LET item == dict_get(index, what_to_do[i].relpath)
              IN  /\ TargetOnly(item) =>
                        /\ what_to_do[i].source_info.filesize = None
                        /\ what_to_do[i].source_info.modtime = None
                  /\ SourceOnly(item) =>
                        /\ what_to_do[i].target_info.filesize = None
                        /\ what_to_do[i].target_info.modtime = None

\* C18: with fair workers the progress loop is left, and then every task has
\* ended; each reported count of finished tasks is between 0 and the number
\* of decisions and not below the count reported before; the loop is left
\* only with the count equal to the total.
C18_Terminates ==
    /\ [](n_finished # None => n_finished \in 0..Len(what_to_do))
    /\ [][n_finished # None => n_finished' >= n_finished]_vars
    /\ [](Executed => /\ n_finished = Len(what_to_do)
                      /\ finished
                      /\ AllSubmitted
                      /\ \A i \in Tasks : Terminal(workers[i]))
    /\ (Resolved ~> Executed)

C18_Witness ==
    /\ Executed /\ ~args.dry_run
    /\ n_finished = MaxTasks - 1
    /\ SomeFailed

\* The line a dry run prints for a decision.
Description(d) ==
    IF d.action = REMOVE_TARGET
    THEN Line("remove", join(args.target, d.relpath), <<>>)
    ELSE IF d.source_info.pathtype = FOLDER
    THEN Line("makedir",
              join(IF d.action = COPY_SOURCE_TO_TARGET
                   THEN args.target ELSE args.source, d.relpath),
              <<>>)
    ELSE IF d.action = COPY_SOURCE_TO_TARGET
    THEN Line("copy", join(args.source, d.relpath), join(args.target, d.relpath))
    ELSE Line("copy", join(args.target, d.relpath), join(args.source, d.relpath))

\* C19: in a dry run the pool has one worker whatever --max-workers is; at
\* most one task runs and a task starts only when the tasks before it in the
\* decision map have ended; the lines printed are one per ended task, in the
\* order of the map, each the description of its decision; at the end there
\* is one line per decision, and the sequence is the one a resolve pass on
\* the (unchanged) input trees determines.
C19_DryRunOrder ==
    args.dry_run =>
        /\ num_workders = 1
        /\ Cardinality(Running) <= 1
        /\ \A i \in Tasks :
              workers[i].state # "Pending" =>
                 \A j \in 1..(i - 1) : Terminal(workers[j])
        /\ Len(out) = n_done
        /\ \A k \in 1..Len(out) : out[k] = Description(what_to_do[k])
        /\ Executed => Len(out) = Len(what_to_do)
        /\ pc = "done" =>
              LET again == ResolveAgain.what_to_do
              IN  out = [k \in 1..Len(again) |-> Description(again[k])]

C19_Witness ==
    /\ args.dry_run /\ pc = "done"
    /\ args.max_workers = MaxWorkers
    /\ Len(out) = MaxTasks - 1
    /\ \E k \in 1..Len(out) : out[k].op = "remove"
    /\ \E k \in 1..Len(out) : out[k].op = "copy"

\* Both sides present at the relpath and at least one of them a folder.
FolderOnBoth(item) ==
    /\ item.source_info # NoInfo /\ item.target_info # NoInfo
    /\ item.source_info.pathtype = FOLDER \/ item.target_info.pathtype = FOLDER

====
